---- MODULE Spec2Model ----
(***************************************************************************)
(* NOC application: the LogEntity value object, the check use cases        *)
(* (CheckService, CheckServiceMultiple), the SendEmailLogs use case, and   *)
(* the jest mocks (fetch, repositories, callbacks, email service) through  *)
(* which the test suites drive and observe them; LogEntity.fromJson and    *)
(* fromObject over serialized entities; EmailService.sendEmail.            *)
(*                                                                         *)
(* Texts are TLA+ strings; a template literal is a concatenation (\o).     *)
(* A thrown or rejected JavaScript value is a record [type, message].      *)
(***************************************************************************)
EXTENDS Integers, Sequences, FiniteSets, TLC

\* ------------------------------------------------------------------ bounds
MaxInv == 2       \* execute calls started in one behaviour

\* the mock repositories the CheckServiceMultiple suite builds (mockRepo1..3)
NumRepos == 3

Repos == 1..NumRepos

\* ------------------------------------------------------------ value domains
LogSeverityLevel == {"low", "medium", "high"}

URLs == {"https://test.com", "https://httpstat.us/500"}

Error(m) == [type |-> "Error", message |-> m]
Text(m) == [type |-> "string", message |-> m]
PlainObject(m) == [type |-> "object", message |-> m]
NoValue == [type |-> "none", message |-> ""]

\* a single address, a list of addresses, the empty string, the empty list
Recipients ==
    { [type |-> "string", value |-> <<"test@example.com">>],
      [type |-> "array", value |-> <<"user1@test.com", "user2@test.com">>],
      [type |-> "string", value |-> <<"">>],
      [type |-> "array", value |-> <<>>] }

NoRecipients == [type |-> "none", value |-> <<>>]

Pending == [settled |-> "pending", ok |-> FALSE, status |-> 0, reason |-> NoValue]

\* what the mocked fetch settles with: an ok response, a non-ok response, a
\* transport error
FetchOutcomes ==
    { [settled |-> "resolved", ok |-> TRUE, status |-> 200, reason |-> NoValue],
      [settled |-> "resolved", ok |-> FALSE, status |-> 500, reason |-> NoValue],
      [settled |-> "rejected", ok |-> FALSE, status |-> 0,
       reason |-> Error("Network error: fetch failed")] }

\* what the mocked sendEmailWithFileSystemLogs settles with
SenderOutcomes ==
    { [settled |-> "resolved", ok |-> TRUE, status |-> 0, reason |-> NoValue],
      [settled |-> "resolved", ok |-> FALSE, status |-> 0, reason |-> NoValue],
      [settled |-> "rejected", ok |-> FALSE, status |-> 0,
       reason |-> Error("SMTP connection failed")],
      [settled |-> "rejected", ok |-> FALSE, status |-> 0,
       reason |-> Text("String error")],
      [settled |-> "rejected", ok |-> FALSE, status |-> 0,
       reason |-> PlainObject("Object error")] }

RepositoryError == Error("Repository error")

\* constructor configurations: which optional callbacks are supplied
\* both callbacks supplied, or both undefined
CallbackConfigs ==
    { [success |-> TRUE, error |-> TRUE], [success |-> FALSE, error |-> FALSE] }

\* the test suites; each runs against its own mocks
UseCaseSuites == {"check-service", "check-service-multiple", "send-email-logs"}
Suites == UseCaseSuites \cup {"log.entity", "email.service"}

\* the repository list a suite builds its use case with: one mockRepository,
\* or mockRepositories, the list of all the mock repositories
SuiteRepositories(s) ==
    IF s = "check-service-multiple"
    THEN {[k \in Repos |-> k]}
    ELSE {<<1>>}

Range(f) == {f[k] : k \in DOMAIN f}

\* --------------------------------------------------------------- variables
VARIABLES
    inv,            \* the execute calls made so far, in call order
    fetchCalls,     \* mockFetch.mock.calls
    sendCalls,      \* mockEmailService.sendEmailWithFileSystemLogs.mock.calls
    saveLogCalls,   \* repo.saveLog.mock.calls of all repositories
    getLogsCalls,   \* repo.getLogs.mock.calls of all repositories
    callbackCalls,  \* mockSuccessCallback / mockErrorCallback .mock.calls
    order,          \* jest's invocation call order counter
    now,            \* the clock read by new Date()
    suite,          \* the use case under test
    repositories,   \* the repositories the use case under test is built with
    throwing,       \* repositories whose saveLog is mocked to throw
    callbacks,      \* the callbacks the check use cases were built with
    entities,       \* LogEntity: the entity built, its JSON, what was read back
    mails,          \* the EmailService.sendEmail calls made so far
    sendMailCalls   \* the calls of the transporter's sendMail

vars == <<inv, fetchCalls, sendCalls, saveLogCalls, getLogsCalls, callbackCalls,
          order, now, suite, repositories, throwing, callbacks, entities, mails,
          sendMailCalls>>

\* ------------------------------------------------------------- LogEntity
\* faulty constructors: a field assigned from the wrong option or not at all
LogEntity_swapped(options, clock) ==
    [ message |-> options.origin,
      level |-> options.level,
      createdAt |-> IF "createdAt" \in DOMAIN options THEN options.createdAt ELSE clock,
      origin |-> options.message ]

LogEntity_noOrigin(options, clock) ==
    [ message |-> options.message,
      level |-> options.level,
      createdAt |-> IF "createdAt" \in DOMAIN options THEN options.createdAt ELSE clock,
      origin |-> "" ]

LogEntity_levelDefault(options, clock) ==
    [ message |-> options.message,
      level |-> "low",
      createdAt |-> IF "createdAt" \in DOMAIN options THEN options.createdAt ELSE clock,
      origin |-> options.origin ]

LogEntity(options, clock) ==
    [ message |-> options.message,
      level |-> options.level,
      createdAt |-> IF "createdAt" \in DOMAIN options THEN options.createdAt ELSE clock,
      origin |-> options.origin ]

\* A field of an entity holds a text; undefined and null are the two texts
\* below, which no input contains. A Date is its time value in milliseconds;
\* Invalid Date (time value NaN) is InvalidDate.
Undefined == "<undefined>"
Null == "<null>"
InvalidDate == 0 - 1

\* Date.prototype.toISOString, for the times of the first minute of the epoch
Pad2(n) == IF n < 10 THEN "0" \o ToString(n) ELSE ToString(n)
Pad3(n) == IF n < 10 THEN "00" \o ToString(n)
           ELSE IF n < 100 THEN "0" \o ToString(n) ELSE ToString(n)
toISOString(t) ==
    "1970-01-01T00:00:" \o Pad2(t \div 1000) \o "." \o Pad3(t % 1000) \o "Z"

\* Date.parse of a text: the time of an ISO text of that minute, NaN otherwise
IsDigit(c) == \E d \in 0..9 : ToString(d) = c
Digit(c) == CHOOSE d \in 0..9 : ToString(d) = c
DateParse(text) ==
    IF /\ Len(text) = 24
       /\ SubSeq(text, 1, 17) = "1970-01-01T00:00:"
       /\ SubSeq(text, 20, 20) = "."
       /\ SubSeq(text, 24, 24) = "Z"
       /\ \A k \in {18, 19, 21, 22, 23} : IsDigit(SubSeq(text, k, k))
    THEN (10 * Digit(SubSeq(text, 18, 18)) + Digit(SubSeq(text, 19, 19))) * 1000
         + 100 * Digit(SubSeq(text, 21, 21)) + 10 * Digit(SubSeq(text, 22, 22))
         + Digit(SubSeq(text, 23, 23))
    ELSE InvalidDate

\* A JSON text is the empty text or an object text, given by its members; a
\* member's value is a JSON string or null.
JsonString(text) == [t |-> "string", v |-> text]
JsonNull == [t |-> "null", v |-> ""]
EmptyText == [empty |-> TRUE, members |-> <<>>]
ObjectText(members) == [empty |-> FALSE, members |-> members]

\* JSON.stringify(entity): undefined fields are left out, a Date is written by
\* toJSON as its ISO text, an Invalid Date as null
JSONstringify(e) ==
    LET keys == {k \in {"message", "level", "origin"} : e[k] # Undefined}
                \cup {"createdAt"}
    IN  ObjectText([k \in keys |->
            IF k = "createdAt"
            THEN IF e.createdAt = InvalidDate
                 THEN JsonNull
                 ELSE JsonString(toISOString(e.createdAt))
            ELSE IF e[k] = Null THEN JsonNull ELSE JsonString(e[k])])

\* const { message, level, origin } = JSON.parse(json): a text field of the
\* parsed object, undefined when the member is missing
Field(members, k) ==
    IF k \notin DOMAIN members THEN Undefined
    ELSE IF members[k].t = "null" THEN Null ELSE members[k].v

\* new Date(createdAt) of the parsed object's createdAt
NewDate(members) ==
    IF "createdAt" \notin DOMAIN members THEN InvalidDate
    ELSE IF members["createdAt"].t = "null" THEN 0
    ELSE DateParse(members["createdAt"].v)

\* faulty fromJson: createdAt is not handed to the constructor
fromJson_defaultsCreatedAt(json, clock) ==
    LET members == IF json.empty THEN <<>> ELSE json.members
    IN  LogEntity([message |-> Field(members, "message"),
                   level |-> Field(members, "level"),
                   origin |-> Field(members, "origin")], clock)

\* LogEntity.fromJson
fromJson(json, clock) ==
    LET members == IF json.empty THEN <<>> ELSE json.members
    IN  LogEntity([message |-> Field(members, "message"),
                   level |-> Field(members, "level"),
                   origin |-> Field(members, "origin"),
                   createdAt |-> NewDate(members)], clock)

\* LogEntity.fromObject: obj maps field names to values; a missing createdAt
\* is undefined and takes the constructor's default
fromObject(obj, clock) ==
    LET get(k) == IF k \in DOMAIN obj THEN obj[k] ELSE Undefined
    IN  IF "createdAt" \in DOMAIN obj
        THEN LogEntity([message |-> get("message"), level |-> get("level"),
                        origin |-> get("origin"), createdAt |-> obj.createdAt], clock)
        ELSE LogEntity([message |-> get("message"), level |-> get("level"),
                        origin |-> get("origin")], clock)

\* the structured options the constructor is given
ExplicitDates == {0, 1001, 59999}
LogEntityOptions ==
    [message : {"Service https://test.com working", ""},
     level : LogSeverityLevel,
     origin : {"check-service.ts"}]
    \cup [message : {"Service https://test.com working", ""},
          level : LogSeverityLevel,
          origin : {"check-service.ts"},
          createdAt : ExplicitDates]

\* stored texts handed to fromJson besides the serialized entity: the empty
\* text, the empty object, a record of another writer
StoredTexts ==
    { EmptyText,
      ObjectText(<<>>),
      ObjectText([k \in {"message", "level", "origin", "createdAt"} |->
                    CASE k = "message" -> JsonString("disk full")
                      [] k = "level" -> JsonString("critical")
                      [] k = "origin" -> JsonString("syslog")
                      [] OTHER -> JsonString("yesterday")]) }

\* untyped mappings handed to fromObject besides the entity's own fields
StoredObjects ==
    { <<>>,
      [message |-> "Service https://test.com working", level |-> "high",
       origin |-> "check-service.ts"] }

NoEntities == [built |-> <<>>, json |-> <<>>, parsed |-> <<>>, mapped |-> <<>>]

\* ------------------------------------------------------------------ mocks
\* The mocks thread a record m = [saveLog, getLogs, callback, order, threw].

\* repo.saveLog: jest.fn() records the call, then runs the implementation,
\* which throws for the repositories set up with mockImplementation(throw)
\* faulty repository mocks: the throwing implementation never throws, throws
\* before the call is recorded, or is installed on every repository
mockSaveLog_neverThrows(m, i, repo, entry) ==
    [ m EXCEPT !.saveLog = Append(@, [inv |-> i, repo |-> repo, entry |-> entry,
                                      order |-> m.order + 1]),
               !.order = @ + 1,
               !.threw = FALSE ]

mockSaveLog_throwsUnrecorded(m, i, repo, entry) ==
    IF repo \in throwing
    THEN [m EXCEPT !.threw = TRUE]
    ELSE [ m EXCEPT !.saveLog = Append(@, [inv |-> i, repo |-> repo, entry |-> entry,
                                           order |-> m.order + 1]),
                    !.order = @ + 1,
                    !.threw = FALSE ]

\* faulty repository mock: saving reads the repository's logs back
mockSaveLog_readsBack(m, i, repo, entry) ==
    [ m EXCEPT !.saveLog = Append(@, [inv |-> i, repo |-> repo, entry |-> entry,
                                      order |-> m.order + 1]),
               !.getLogs = Append(@, [inv |-> i, repo |-> repo, order |-> m.order + 2]),
               !.order = @ + 2,
               !.threw = repo \in throwing ]

\* faulty repository mock: the call is booked on the execute call made last
mockSaveLog_lastCaller(m, i, repo, entry) ==
    [ m EXCEPT !.saveLog = Append(@, [inv |-> Len(inv), repo |-> repo,
                                      entry |-> entry, order |-> m.order + 1]),
               !.order = @ + 1,
               !.threw = repo \in throwing ]

mockSaveLog_alwaysThrows(m, i, repo, entry) ==
    [ m EXCEPT !.saveLog = Append(@, [inv |-> i, repo |-> repo, entry |-> entry,
                                      order |-> m.order + 1]),
               !.order = @ + 1,
               !.threw = TRUE ]

mockSaveLog(m, i, repo, entry) ==
    [ m EXCEPT !.saveLog = Append(@, [inv |-> i, repo |-> repo, entry |-> entry,
                                      order |-> m.order + 1]),
               !.order = @ + 1,
               !.threw = repo \in throwing ]

\* mockSuccessCallback / mockErrorCallback: jest.fn() recording its arguments
\* faulty callback mock: the call is recorded without its arguments
mockCallback_noArgs(m, i, fn, args) ==
    [ m EXCEPT !.callback = Append(@, [inv |-> i, fn |-> fn, args |-> <<>>,
                                       order |-> m.order + 1]),
               !.order = @ + 1 ]

mockCallback(m, i, fn, args) ==
    [ m EXCEPT !.callback = Append(@, [inv |-> i, fn |-> fn, args |-> args,
                                       order |-> m.order + 1]),
               !.order = @ + 1 ]

\* mockFetch: records the url it is called with
\* faulty fetch mock: the call is recorded twice
mockFetch_twice(calls, i, url, ord) ==
    calls \o << [inv |-> i, url |-> url, order |-> ord],
                [inv |-> i, url |-> url, order |-> ord] >>

mockFetch(calls, i, url, ord) ==
    Append(calls, [inv |-> i, url |-> url, order |-> ord])

\* mockEmailService.sendEmailWithFileSystemLogs: records the recipients
\* faulty sender mock: a list of recipients is cut to its first address
mockSendEmailWithFileSystemLogs_firstOnly(calls, i, to, ord) ==
    Append(calls, [inv |-> i,
                   to |-> [to EXCEPT !.value = IF Len(@) > 1 THEN <<@[1]>> ELSE @],
                   order |-> ord])

mockSendEmailWithFileSystemLogs(calls, i, to, ord) ==
    Append(calls, [inv |-> i, to |-> to, order |-> ord])

\* the text a caught value is logged as
\* faulty rendering: any value carrying a message is rendered like an Error
ErrorText_objectMessage(v) ==
    CASE v.type \in {"Error", "object"} -> "Error: " \o v.message
      [] v.type = "string" -> v.message
      [] OTHER -> "[object Object]"

ErrorText(v) ==
    CASE v.type = "Error" -> "Error: " \o v.message
      [] v.type = "string" -> v.message
      [] OTHER -> "[object Object]"

\* ------------------------------------------------------------- use cases
CheckOrigin == "check-service.ts"
EmailOrigin == "send-email-logs.ts"

ProbeOk(outcome) == outcome.settled = "resolved" /\ outcome.ok

\* the reason a probe failed: the rejection's text, or the non-ok status
FailureReason(outcome) ==
    IF outcome.settled = "rejected"
    THEN ErrorText(outcome.reason)
    ELSE "non-ok status " \o ToString(outcome.status)

SuccessMessage(url) == "Service " \o url \o " working"
FailureMessage(url, outcome) == url \o " is not ok. " \o FailureReason(outcome)

\* the entry a check logs once the probe's outcome is known
CheckLog(url, outcome, clock) ==
    IF ProbeOk(outcome)
    THEN LogEntity([message |-> SuccessMessage(url), level |-> "low",
                    origin |-> CheckOrigin], clock)
    ELSE LogEntity([message |-> FailureMessage(url, outcome), level |-> "high",
                    origin |-> CheckOrigin], clock)

\* successCallback && successCallback() / errorCallback && errorCallback(msg)
CheckCallback(m, i, url, outcome) ==
    IF ProbeOk(outcome)
    THEN IF callbacks.success THEN mockCallback(m, i, "successCallback", <<>>) ELSE m
    ELSE IF callbacks.error
         THEN mockCallback(m, i, "errorCallback", <<FailureMessage(url, outcome)>>)
         ELSE m

Returned(m, b) == [mock |-> m, status |-> "returned", value |-> b, error |-> NoValue]
Raised(m, e) == [mock |-> m, status |-> "raised", value |-> FALSE, error |-> e]

\* CheckService.execute after the probe has settled
CheckServiceContinue(m, i, repo, url, outcome, clock) ==
    LET s == mockSaveLog(m, i, repo, CheckLog(url, outcome, clock))
    IN  IF s.threw
        THEN Raised(s, RepositoryError)
        ELSE Returned(CheckCallback(s, i, url, outcome), ProbeOk(outcome))

\* repositories.forEach(repo => repo.saveLog(log)), aborted by the first throw
RECURSIVE callLogs(_, _, _, _, _)
callLogs(m, i, repos, k, entry) ==
    IF k > Len(repos)
    THEN m
    ELSE LET s == mockSaveLog(m, i, repos[k], entry)
         IN  IF s.threw THEN s ELSE callLogs(s, i, repos, k + 1, entry)

\* faulty execute: the callback is invoked before the repositories are written
CheckServiceMultipleContinue_callbackFirst(m, i, repos, url, outcome, clock) ==
    LET c == CheckCallback(m, i, url, outcome)
        s == callLogs(c, i, repos, 1, CheckLog(url, outcome, clock))
    IN  IF s.threw
        THEN Raised(s, RepositoryError)
        ELSE Returned(s, ProbeOk(outcome))

\* CheckServiceMultiple.execute after the probe has settled
CheckServiceMultipleContinue(m, i, repos, url, outcome, clock) ==
    LET s == callLogs(m, i, repos, 1, CheckLog(url, outcome, clock))
    IN  IF s.threw
        THEN Raised(s, RepositoryError)
        ELSE Returned(CheckCallback(s, i, url, outcome), ProbeOk(outcome))

\* the message SendEmailLogs logs for a send that did not succeed
SendFailureMessage(outcome) ==
    IF outcome.settled = "rejected"
    THEN ErrorText(outcome.reason)
    ELSE "Error: Failed to send email"

\* SendEmailLogs.execute after the sender has settled
SendEmailLogsContinue(m, i, repo, outcome, clock) ==
    IF outcome.settled = "resolved" /\ outcome.ok
    THEN Returned(m, TRUE)
    ELSE LET s == mockSaveLog(m, i, repo,
                      LogEntity([message |-> SendFailureMessage(outcome),
                                 level |-> "high", origin |-> EmailOrigin], clock))
         IN  IF s.threw THEN Raised(s, RepositoryError) ELSE Returned(s, FALSE)

\* ---------------------------------------------------------------- actions
Mocks == [saveLog |-> saveLogCalls, getLogs |-> getLogsCalls,
          callback |-> callbackCalls, order |-> order, threw |-> FALSE]

Invocation(uc, url, to, repos) ==
    [uc |-> uc, url |-> url, to |-> to, repos |-> repos, status |-> "awaiting",
     value |-> FALSE, error |-> NoValue, outcome |-> Pending, doneAt |-> 0]

Awaiting(uc) == {i \in 1..Len(inv) : inv[i].uc = uc /\ inv[i].status = "awaiting"}

Settle(i, outcome, r) ==
    /\ inv' = [inv EXCEPT ![i] = [@ EXCEPT !.status = r.status, !.value = r.value,
                                           !.error = r.error, !.outcome = outcome,
                                           !.doneAt = r.mock.order]]
    /\ saveLogCalls' = r.mock.saveLog
    /\ getLogsCalls' = r.mock.getLogs
    /\ callbackCalls' = r.mock.callback
    /\ order' = r.mock.order
    /\ now' = now + 1

\* new CheckService(repo, successCallback, errorCallback).execute(url), up to
\* its await of fetch(url)
CheckServiceExecute(repo, url) ==
    /\ suite = "check-service"
    /\ Len(inv) < MaxInv
    /\ inv' = Append(inv, Invocation("CheckService", url, NoRecipients, <<repo>>))
    /\ fetchCalls' = mockFetch(fetchCalls, Len(inv) + 1, url, order + 1)
    /\ order' = order + 1
    /\ now' = now + 1
    /\ UNCHANGED <<sendCalls, saveLogCalls, getLogsCalls, callbackCalls, suite,
                   repositories, throwing, callbacks,
                   entities, mails, sendMailCalls>>

\* new CheckServiceMultiple(repos, ...).execute(url), up to its await; repos
\* is the suite's list, or the empty list of serviceWithNoRepos
CheckServiceMultipleExecute(repos, url) ==
    /\ suite = "check-service-multiple"
    /\ Len(inv) < MaxInv
    /\ inv' = Append(inv, Invocation("CheckServiceMultiple", url, NoRecipients,
                                     repos))
    /\ fetchCalls' = mockFetch(fetchCalls, Len(inv) + 1, url, order + 1)
    /\ order' = order + 1
    /\ now' = now + 1
    /\ UNCHANGED <<sendCalls, saveLogCalls, getLogsCalls, callbackCalls, suite,
                   repositories, throwing, callbacks,
                   entities, mails, sendMailCalls>>

\* new SendEmailLogs(emailService, repo).execute(to), up to its await
SendEmailLogsExecute(repo, to) ==
    /\ suite = "send-email-logs"
    /\ Len(inv) < MaxInv
    /\ inv' = Append(inv, Invocation("SendEmailLogs", "", to, <<repo>>))
    /\ sendCalls' = mockSendEmailWithFileSystemLogs(sendCalls, Len(inv) + 1, to,
                                                    order + 1)
    /\ order' = order + 1
    /\ now' = now + 1
    /\ UNCHANGED <<fetchCalls, saveLogCalls, getLogsCalls, callbackCalls, suite,
                   repositories, throwing, callbacks,
                   entities, mails, sendMailCalls>>

\* the probe of a CheckService.execute settles and execute runs to its end
CheckServiceResume(i, outcome) ==
    /\ i \in Awaiting("CheckService")
    /\ Settle(i, outcome,
              CheckServiceContinue(Mocks, i, inv[i].repos[1], inv[i].url, outcome, now))
    /\ UNCHANGED <<fetchCalls, sendCalls, suite, repositories, throwing, callbacks,
                   entities, mails, sendMailCalls>>

CheckServiceMultipleResume(i, outcome) ==
    /\ i \in Awaiting("CheckServiceMultiple")
    /\ Settle(i, outcome,
              CheckServiceMultipleContinue(Mocks, i, inv[i].repos, inv[i].url,
                                           outcome, now))
    /\ UNCHANGED <<fetchCalls, sendCalls, suite, repositories, throwing, callbacks,
                   entities, mails, sendMailCalls>>

SendEmailLogsResume(i, outcome) ==
    /\ i \in Awaiting("SendEmailLogs")
    /\ Settle(i, outcome,
              SendEmailLogsContinue(Mocks, i, inv[i].repos[1], outcome, now))
    /\ UNCHANGED <<fetchCalls, sendCalls, suite, repositories, throwing, callbacks,
                   entities, mails, sendMailCalls>>

UseCaseVars == <<inv, fetchCalls, sendCalls, saveLogCalls, getLogsCalls,
                 callbackCalls, order, suite, repositories, throwing, callbacks>>

\* the untyped mapping with the fields of an entity
AsObject(e) ==
    [message |-> e.message, level |-> e.level, origin |-> e.origin,
     createdAt |-> e.createdAt]

\* new LogEntity(options)
LogEntityNew(options) ==
    /\ suite = "log.entity"
    /\ entities.built = <<>>
    /\ entities' = [entities EXCEPT !.built = <<LogEntity(options, now)>>]
    /\ now' = now + 1
    /\ UNCHANGED <<UseCaseVars, mails, sendMailCalls>>

\* JSON.stringify(entity) of the entity built
LogEntityStringify ==
    /\ suite = "log.entity"
    /\ entities.built # <<>>
    /\ entities.json = <<>>
    /\ entities' = [entities EXCEPT !.json = <<JSONstringify(entities.built[1])>>]
    /\ now' = now + 1
    /\ UNCHANGED <<UseCaseVars, mails, sendMailCalls>>

\* LogEntity.fromJson(json)
LogEntityFromJson(json) ==
    /\ suite = "log.entity"
    /\ entities.parsed = <<>>
    /\ entities' = [entities EXCEPT
                       !.parsed = <<[input |-> json, entity |-> fromJson(json, now)]>>]
    /\ now' = now + 1
    /\ UNCHANGED <<UseCaseVars, mails, sendMailCalls>>

\* LogEntity.fromObject(obj)
LogEntityFromObject(obj) ==
    /\ suite = "log.entity"
    /\ entities.mapped = <<>>
    /\ entities' = [entities EXCEPT
                       !.mapped = <<[input |-> obj, entity |-> fromObject(obj, now)]>>]
    /\ now' = now + 1
    /\ UNCHANGED <<UseCaseVars, mails, sendMailCalls>>

\* the options sendEmail is called with
SendMailOptions ==
    [to : {"test@example.com", ""},
     subject : {"Logs del servidor"},
     htmlBody : {"<h3>Logs de sistema - NOC</h3>", ""}]

\* what the transporter's sendMail settles with: the sent information, or an
\* error
SendMailOutcomes ==
    { [settled |-> "resolved", ok |-> TRUE, status |-> 0, reason |-> NoValue],
      [settled |-> "rejected", ok |-> FALSE, status |-> 0,
       reason |-> Error("connect ECONNREFUSED")] }

\* this.transporter.sendMail({ to, subject, html: htmlBody }) of call i
sendMail(calls, i, options) ==
    Append(calls, [call |-> i,
                   message |-> [to |-> options.to, subject |-> options.subject,
                                html |-> options.htmlBody]])

\* faulty sendEmail: the catch hands the error on
sendEmail_rethrows(outcome) ==
    IF outcome.settled = "resolved"
    THEN [status |-> "returned", value |-> TRUE, error |-> NoValue]
    ELSE [status |-> "raised", value |-> FALSE, error |-> outcome.reason]

\* EmailService.sendEmail after sendMail has settled: true past the await,
\* false from the catch
sendEmail(outcome) ==
    IF outcome.settled = "resolved"
    THEN [status |-> "returned", value |-> TRUE, error |-> NoValue]
    ELSE [status |-> "returned", value |-> FALSE, error |-> NoValue]

\* emailService.sendEmail(options), up to its await of sendMail
EmailServiceSendEmail(options) ==
    /\ suite = "email.service"
    /\ Len(mails) < MaxInv
    /\ mails' = Append(mails, [options |-> options, status |-> "awaiting",
                               value |-> FALSE, error |-> NoValue,
                               outcome |-> Pending])
    /\ sendMailCalls' = sendMail(sendMailCalls, Len(mails) + 1, options)
    /\ now' = now + 1
    /\ UNCHANGED <<UseCaseVars, entities>>

\* sendMail settles and sendEmail runs to its return
EmailServiceSendEmailResume(i, outcome) ==
    /\ suite = "email.service"
    /\ mails[i].status = "awaiting"
    /\ LET r == sendEmail(outcome)
       IN  mails' = [mails EXCEPT ![i] = [@ EXCEPT !.status = r.status,
                                                   !.value = r.value,
                                                   !.error = r.error,
                                                   !.outcome = outcome]]
    /\ now' = now + 1
    /\ UNCHANGED <<UseCaseVars, entities, sendMailCalls>>

\* ------------------------------------------------------------ specification
Init ==
    /\ inv = <<>>
    /\ fetchCalls = <<>>
    /\ sendCalls = <<>>
    /\ saveLogCalls = <<>>
    /\ getLogsCalls = <<>>
    /\ callbackCalls = <<>>
    /\ order = 0
    /\ now = 0
    /\ suite \in Suites
    /\ repositories \in SuiteRepositories(suite)
    /\ throwing \in IF suite \in UseCaseSuites
                    THEN {S \in SUBSET Range(repositories) : Cardinality(S) <= 1}
                    ELSE {{}}
    /\ callbacks \in IF suite \in {"check-service", "check-service-multiple"}
                     THEN CallbackConfigs
                     ELSE {[success |-> FALSE, error |-> FALSE]}
    /\ entities = NoEntities
    /\ mails = <<>>
    /\ sendMailCalls = <<>>

Next ==
    \/ \E url \in URLs : CheckServiceExecute(repositories[1], url)
    \/ \E repos \in {<<>>, repositories}, url \in URLs :
          CheckServiceMultipleExecute(repos, url)
    \/ \E to \in Recipients : SendEmailLogsExecute(repositories[1], to)
    \/ \E i \in 1..Len(inv), o \in FetchOutcomes : CheckServiceResume(i, o)
    \/ \E i \in 1..Len(inv), o \in FetchOutcomes : CheckServiceMultipleResume(i, o)
    \/ \E i \in 1..Len(inv), o \in SenderOutcomes : SendEmailLogsResume(i, o)
    \/ \E options \in LogEntityOptions : LogEntityNew(options)
    \/ LogEntityStringify
    \/ \E json \in StoredTexts \cup Range(entities.json) : LogEntityFromJson(json)
    \/ \E obj \in StoredObjects \cup {AsObject(entities.built[k]) :
                                          k \in DOMAIN entities.built} :
          LogEntityFromObject(obj)
    \/ \E options \in SendMailOptions : EmailServiceSendEmail(options)
    \/ \E i \in 1..Len(mails), o \in SendMailOutcomes :
          EmailServiceSendEmailResume(i, o)

Spec == Init /\ [][Next]_vars

\* ------------------------------------------------------------ observations
Invs == 1..Len(inv)
Done(i) == inv[i].status # "awaiting"
Failed(i) == Done(i) /\ ~ProbeOk(inv[i].outcome)

\* what the test suites read off the mocks
SaveLogsOf(i) == SelectSeq(saveLogCalls, LAMBDA c : c.inv = i)
CallbacksOf(i) == SelectSeq(callbackCalls, LAMBDA c : c.inv = i)
CallsOf(i, fn) == SelectSeq(callbackCalls, LAMBDA c : c.inv = i /\ c.fn = fn)
FetchesOf(i) == SelectSeq(fetchCalls, LAMBDA c : c.inv = i)
SendsOf(i) == SelectSeq(sendCalls, LAMBDA c : c.inv = i)

\* expect.stringContaining(u)
Contains(s, u) ==
    \E k \in 1..(Len(s) - Len(u) + 1) : SubSeq(s, k, k + Len(u) - 1) = u

\* no repository the invocation's use case was built with throws
ReposSound(i) == Range(inv[i].repos) \cap throwing = {}

\* the position in the invocation's list of the first repository that throws
FirstThrowing(i) ==
    CHOOSE k \in 1..Len(inv[i].repos) :
        /\ inv[i].repos[k] \in throwing
        /\ \A j \in 1..(k - 1) : inv[i].repos[j] \notin throwing

\* ------------------------------------------------------------------ claims

\* C1: CheckService, probe ok, repository not raising: execute returns true,
\* saveLog is called exactly once with {level low, message "Service {url}
\* working", origin "check-service.ts"}, the success callback (when supplied) is
\* invoked exactly once and the failure callback never.
C1_SingleSuccess ==
    \A i \in Invs :
        (inv[i].uc = "CheckService" /\ Done(i) /\ ProbeOk(inv[i].outcome)
           /\ ReposSound(i))
        => /\ inv[i].status = "returned"
           /\ inv[i].value = TRUE
           /\ Len(SaveLogsOf(i)) = 1
           /\ SaveLogsOf(i)[1].entry.level = "low"
           /\ SaveLogsOf(i)[1].entry.message = "Service " \o inv[i].url \o " working"
           /\ SaveLogsOf(i)[1].entry.origin = "check-service.ts"
           /\ Len(CallsOf(i, "successCallback")) = (IF callbacks.success THEN 1 ELSE 0)
           /\ Len(CallsOf(i, "errorCallback")) = 0

C1_Witness ==
    \E i \in Invs :
        /\ inv[i].uc = "CheckService" /\ Done(i) /\ ProbeOk(inv[i].outcome)
        /\ ReposSound(i)
        /\ inv[i].value = TRUE
        /\ Len(SaveLogsOf(i)) = 1
        /\ Len(CallsOf(i, "successCallback")) = 1

\* what C2 promises of a CheckService invocation whose probe failed
SingleFailureHandled(i) ==
    /\ inv[i].status = "returned"
    /\ inv[i].value = FALSE
    /\ Len(SaveLogsOf(i)) = 1
    /\ SaveLogsOf(i)[1].entry.level = "high"
    /\ Contains(SaveLogsOf(i)[1].entry.message, inv[i].url)
    /\ Len(CallsOf(i, "errorCallback")) = (IF callbacks.error THEN 1 ELSE 0)
    /\ \A k \in 1..Len(CallsOf(i, "errorCallback")) :
          /\ Len(CallsOf(i, "errorCallback")[k].args) = 1
          /\ Contains(CallsOf(i, "errorCallback")[k].args[1], inv[i].url)
    /\ Len(CallsOf(i, "successCallback")) = 0

\* C2 as claimed: CheckService, probe non-ok or transport error: execute does
\* not raise, returns false, calls saveLog exactly once with a high entry whose
\* message contains url, invokes the failure callback once with a text
\* containing url and never the success callback.
C2_SingleFailure_Claimed ==
    \A i \in Invs :
        (inv[i].uc = "CheckService" /\ Failed(i)) => SingleFailureHandled(i)

\* C2 as amended: the same, for a repository whose saveLog does not raise.
C2_SingleFailure ==
    \A i \in Invs :
        (inv[i].uc = "CheckService" /\ Failed(i) /\ ReposSound(i))
        => SingleFailureHandled(i)

C2_Witness ==
    \E i, j \in Invs :
        /\ inv[i].uc = "CheckService" /\ Failed(i) /\ ReposSound(i)
        /\ inv[i].outcome.settled = "rejected"
        /\ inv[j].uc = "CheckService" /\ Failed(j)
        /\ inv[j].outcome.settled = "resolved"
        /\ inv[i].url # inv[j].url
        /\ Len(CallsOf(i, "errorCallback")) = 1
        /\ Len(CallsOf(j, "errorCallback")) = 1

\* C3: CheckServiceMultiple built with N >= 0 repositories none of which
\* raises: every execute calls saveLog exactly once on each repository, in list
\* order, and all N entries carry the same message, level and origin: low and
\* "Service {url} working" on an ok probe, high and a message containing url
\* otherwise.
C3_FanOut ==
    \A i \in Invs :
        (inv[i].uc = "CheckServiceMultiple" /\ Done(i) /\ ReposSound(i))
        => /\ Len(SaveLogsOf(i)) = Len(inv[i].repos)
           /\ \A k \in 1..Len(SaveLogsOf(i)) :
                LET e == SaveLogsOf(i)[k].entry
                IN  /\ SaveLogsOf(i)[k].repo = inv[i].repos[k]
                    /\ e.message = SaveLogsOf(i)[1].entry.message
                    /\ e.level = SaveLogsOf(i)[1].entry.level
                    /\ e.origin = SaveLogsOf(i)[1].entry.origin
                    /\ e.origin = "check-service.ts"
                    /\ IF ProbeOk(inv[i].outcome)
                       THEN /\ e.level = "low"
                            /\ e.message = "Service " \o inv[i].url \o " working"
                       ELSE /\ e.level = "high"
                            /\ Contains(e.message, inv[i].url)

C3_Witness ==
    \E i, j \in Invs :
        /\ inv[i].uc = "CheckServiceMultiple" /\ Done(i) /\ ReposSound(i)
        /\ Len(inv[i].repos) = NumRepos
        /\ Len(SaveLogsOf(i)) = NumRepos
        /\ ProbeOk(inv[i].outcome)
        /\ inv[j].uc = "CheckServiceMultiple" /\ Failed(j)
        /\ Len(SaveLogsOf(j)) = NumRepos

C5_SingleRepositoryFailure ==
    \A i \in Invs :
        (inv[i].uc = "CheckService" /\ Done(i) /\ ~ReposSound(i))
        => /\ inv[i].status = "raised"
           /\ inv[i].error = RepositoryError
           /\ Len(SaveLogsOf(i)) = 1
           /\ Len(CallbacksOf(i)) = 0

C5_Witness ==
    \E i, j \in Invs :
        /\ inv[i].uc = "CheckService" /\ Done(i) /\ ~ReposSound(i)
        /\ ProbeOk(inv[i].outcome)
        /\ inv[i].status = "raised"
        /\ inv[j].uc = "CheckService" /\ Failed(j) /\ ~ReposSound(j)
        /\ inv[j].status = "raised"
        /\ callbacks.success /\ callbacks.error

\* what the caller and the callbacks observe of a finished invocation
Observed(i) ==
    [ status |-> inv[i].status, value |-> inv[i].value,
      fetched |-> [k \in 1..Len(FetchesOf(i)) |-> FetchesOf(i)[k].url],
      called |-> [k \in 1..Len(CallbacksOf(i)) |->
                     [fn |-> CallbacksOf(i)[k].fn, args |-> CallbacksOf(i)[k].args]] ]

\* C6: for every probe outcome, a CheckServiceMultiple built with zero
\* repositories performs the probe once, returns the same boolean and fires the
\* same callback, the same number of times with the same argument, as one built
\* with a non-empty list of repositories whose saveLog does not raise.
C6_RepositoryCountIrrelevant ==
    \A i, j \in Invs :
        (/\ inv[i].uc = "CheckServiceMultiple" /\ Done(i) /\ Len(inv[i].repos) = 0
         /\ inv[j].uc = "CheckServiceMultiple" /\ Done(j) /\ Len(inv[j].repos) > 0
         /\ ReposSound(j)
         /\ inv[i].url = inv[j].url
         /\ inv[i].outcome = inv[j].outcome)
        => /\ Observed(i) = Observed(j)
           /\ inv[i].status = "returned"
           /\ Len(FetchesOf(i)) = 1

C6_Witness ==
    \E i, j \in Invs :
        /\ inv[i].uc = "CheckServiceMultiple" /\ Done(i) /\ Len(inv[i].repos) = 0
        /\ inv[j].uc = "CheckServiceMultiple" /\ Done(j)
        /\ Len(inv[j].repos) = NumRepos
        /\ ReposSound(j)
        /\ inv[i].url = inv[j].url
        /\ inv[i].outcome = inv[j].outcome
        /\ ~ProbeOk(inv[i].outcome)
        /\ callbacks.error
        /\ Len(CallbacksOf(i)) = 1

\* C7: SendEmailLogs, the sender reports true, for a single address, a list,
\* the empty string and the empty list alike: execute returns true, the sender
\* was called with exactly the recipients passed in, and saveLog is not called.
C7_SendSuccess ==
    \A i \in Invs :
        (inv[i].uc = "SendEmailLogs" /\ Done(i)
           /\ inv[i].outcome.settled = "resolved" /\ inv[i].outcome.ok)
        => /\ inv[i].status = "returned"
           /\ inv[i].value = TRUE
           /\ Len(SendsOf(i)) = 1
           /\ SendsOf(i)[1].to = inv[i].to
           /\ Len(SaveLogsOf(i)) = 0

C7_Witness ==
    \E i, j \in Invs :
        /\ inv[i].uc = "SendEmailLogs" /\ Done(i) /\ inv[i].outcome.ok
        /\ inv[i].to.type = "array" /\ Len(inv[i].to.value) = 2
        /\ inv[i].value = TRUE
        /\ inv[j].uc = "SendEmailLogs" /\ Done(j) /\ inv[j].outcome.ok
        /\ inv[j].to.type = "string"
        /\ inv[j].value = TRUE
        /\ throwing # {}

SenderReportedFalse(i) ==
    /\ inv[i].uc = "SendEmailLogs" /\ Done(i)
    /\ inv[i].outcome.settled = "resolved" /\ ~inv[i].outcome.ok

SenderRaised(i) ==
    /\ inv[i].uc = "SendEmailLogs" /\ Done(i)
    /\ inv[i].outcome.settled = "rejected"

\* execute returned false after exactly one saveLog of a high entry with
\* message msg and origin "send-email-logs.ts"
SendFailureLogged(i, msg) ==
    /\ inv[i].status = "returned"
    /\ inv[i].value = FALSE
    /\ Len(SaveLogsOf(i)) = 1
    /\ SaveLogsOf(i)[1].entry.level = "high"
    /\ SaveLogsOf(i)[1].entry.message = msg
    /\ SaveLogsOf(i)[1].entry.origin = "send-email-logs.ts"

\* C8 as claimed: the sender reports false: execute returns false and calls
\* saveLog exactly once with {level high, message "Error: Failed to send
\* email", origin "send-email-logs.ts"}, for one recipient and for a list.
C8_SendReportedFailure_Claimed ==
    \A i \in Invs :
        SenderReportedFalse(i) => SendFailureLogged(i, "Error: Failed to send email")

\* C8 as amended: the same, for a repository whose saveLog does not raise.
C8_SendReportedFailure ==
    \A i \in Invs :
        (SenderReportedFalse(i) /\ ReposSound(i))
        => SendFailureLogged(i, "Error: Failed to send email")

C8_Witness ==
    \E i, j \in Invs :
        /\ SenderReportedFalse(i) /\ ReposSound(i)
        /\ inv[i].to.type = "array" /\ Len(inv[i].to.value) = 2
        /\ Len(SaveLogsOf(i)) = 1
        /\ SenderReportedFalse(j)
        /\ inv[j].to.type = "string"
        /\ Len(SaveLogsOf(j)) = 1

\* the message C9 claims for a raised value: "Error: " and its message text if
\* it has one, the value itself if it is text, its default string otherwise
ClaimedErrorText(v) ==
    IF v.type \in {"Error", "object"} /\ v.message # ""
    THEN "Error: " \o v.message
    ELSE IF v.type = "string" THEN v.message ELSE "[object Object]"

\* the message C9 is amended to: "Error: " and the message text for an Error
\* object, the value itself for a text, and the default string representation
\* for anything else, a plain object carrying a message included
AmendedErrorText(v) ==
    IF v.type = "Error"
    THEN "Error: " \o v.message
    ELSE IF v.type = "string" THEN v.message ELSE "[object Object]"

\* C9 as claimed, read for a repository that does not raise: the sender raises
\* v: execute returns false and calls saveLog exactly once with a high entry
\* whose message is "Error: " and v's message text if v has one, v if v is text,
\* v's default string representation otherwise.
C9_RaisedErrorText_Claimed ==
    \A i \in Invs :
        (SenderRaised(i) /\ ReposSound(i))
        => SendFailureLogged(i, ClaimedErrorText(inv[i].outcome.reason))

\* C9 as amended: the sender raises v and the repository does not raise:
\* execute returns false and calls saveLog exactly once with a high entry whose
\* message is "Error: " and the message text if v is an Error object, v if v is
\* text, and the default string representation of v otherwise, also when v is
\* a plain object that carries a message.
C9_RaisedErrorText ==
    \A i \in Invs :
        (SenderRaised(i) /\ ReposSound(i))
        => SendFailureLogged(i, AmendedErrorText(inv[i].outcome.reason))

C9_Witness ==
    \E i, j \in Invs :
        /\ SenderRaised(i) /\ ReposSound(i)
        /\ inv[i].outcome.reason.type = "object"
        /\ Len(SaveLogsOf(i)) = 1
        /\ SaveLogsOf(i)[1].entry.message = "[object Object]"
        /\ SenderRaised(j)
        /\ inv[j].outcome.reason.type = "Error"
        /\ Len(SaveLogsOf(j)) = 1
        /\ SaveLogsOf(j)[1].entry.message = "Error: SMTP connection failed"

\* C10 as claimed: whatever the sender does (reports true, reports false,
\* raises any value), execute returns a boolean to its caller and does not
\* raise.
C10_NeverRaises_Claimed ==
    \A i \in Invs :
        (inv[i].uc = "SendEmailLogs" /\ Done(i)) => inv[i].status = "returned"

\* C10 as amended: whatever the sender does, execute never raises the sender's
\* error: with a repository whose saveLog does not raise it returns a boolean,
\* true exactly when the sender reported true; the only error it lets through
\* is the one raised by saveLog while the failure is being logged.
C10_NeverReraises ==
    \A i \in Invs :
        (inv[i].uc = "SendEmailLogs" /\ Done(i))
        => /\ ReposSound(i)
              => /\ inv[i].status = "returned"
                 /\ inv[i].value = (inv[i].outcome.settled = "resolved"
                                      /\ inv[i].outcome.ok)
           /\ inv[i].status = "raised"
              => /\ inv[i].error = RepositoryError
                 /\ inv[i].error # inv[i].outcome.reason
                 /\ Len(SaveLogsOf(i)) = 1

C10_Witness ==
    \E i, j \in Invs :
        /\ SenderRaised(i) /\ ReposSound(i)
        /\ inv[i].status = "returned" /\ inv[i].value = FALSE
        /\ inv[j].uc = "SendEmailLogs" /\ Done(j)
        /\ inv[j].outcome.settled = "resolved" /\ inv[j].outcome.ok
        /\ inv[j].status = "returned" /\ inv[j].value = TRUE

\* the execute calls i and j were in flight at the same time: j was made
\* after i and before i's probe or send had settled
Started(i) ==
    IF inv[i].uc = "SendEmailLogs" THEN SendsOf(i)[1].order ELSE FetchesOf(i)[1].order

Overlap(i, j) == i < j /\ Done(i) /\ Started(j) <= inv[i].doneAt

\* the fields of the entries an invocation wrote, in the order written
Written(i) ==
    LET saves == SaveLogsOf(i)
    IN  [k \in 1..Len(saves) |->
            [repo |-> saves[k].repo,
             message |-> saves[k].entry.message,
             level |-> saves[k].entry.level,
             origin |-> saves[k].entry.origin]]

\* the entries an invocation is to write, given its own argument and outcome
OwnEntryCount(i) ==
    IF inv[i].uc = "SendEmailLogs"
    THEN IF inv[i].outcome.settled = "resolved" /\ inv[i].outcome.ok THEN 0 ELSE 1
    ELSE IF ReposSound(i) THEN Len(inv[i].repos) ELSE FirstThrowing(i)

\* C11: several execute calls in flight at once on the same use case, under
\* every interleaving of their completions: the collaborator is called exactly
\* once per invocation with that invocation's argument; each invocation's
\* result is what its own outcome gives (true exactly for an ok probe or a
\* sender reporting true, when it returns) and is delivered to its own caller;
\* the entries it writes are its own (their number and text follow from its
\* own argument and outcome, a check's message names its own url and no other)
\* and two invocations with equal argument and outcome observe the same.
C11_ConcurrentIndependent ==
    /\ \A i \in Invs :
          LET saves == SaveLogsOf(i)
              sends == SendsOf(i)
              fetches == FetchesOf(i)
              settled == inv[i].outcome
          IN  /\ IF inv[i].uc = "SendEmailLogs"
                 THEN /\ Len(sends) = 1 /\ sends[1].to = inv[i].to
                      /\ Len(fetches) = 0
                 ELSE /\ Len(fetches) = 1 /\ fetches[1].url = inv[i].url
                      /\ Len(sends) = 0
              /\ ~Done(i) => (Len(saves) = 0 /\ Len(CallbacksOf(i)) = 0)
              /\ Done(i) =>
                    /\ inv[i].status = "returned"
                          => inv[i].value = (settled.settled = "resolved" /\ settled.ok)
                    /\ Len(saves) = OwnEntryCount(i)
                    /\ \A e \in {saves[k].entry : k \in 1..Len(saves)} :
                          /\ e.createdAt <= now
                          /\ inv[i].uc # "SendEmailLogs" =>
                                /\ Contains(e.message, inv[i].url)
                                /\ \A u \in URLs \ {inv[i].url} : ~Contains(e.message, u)
                          /\ inv[i].uc = "SendEmailLogs" =>
                                e.message =
                                    IF settled.settled = "resolved"
                                    THEN "Error: Failed to send email"
                                    ELSE IF settled.reason.type = "Error"
                                    THEN "Error: " \o settled.reason.message
                                    ELSE IF settled.reason.type = "string"
                                    THEN settled.reason.message
                                    ELSE "[object Object]"
    /\ \A i, j \in Invs :
          (/\ i < j /\ Done(i) /\ Done(j)
           /\ inv[i].uc = inv[j].uc /\ inv[i].repos = inv[j].repos
           /\ inv[i].url = inv[j].url /\ inv[i].to = inv[j].to
           /\ inv[i].outcome = inv[j].outcome)
          => /\ inv[i].status = inv[j].status
             /\ inv[i].value = inv[j].value
             /\ Written(i) = Written(j)
             /\ Len(CallbacksOf(i)) = Len(CallbacksOf(j))

\* two calls in flight together, with different arguments and outcomes, the
\* later one finished first, each with its own result and entries
C11_Witness ==
    \E i, j \in Invs :
        /\ Overlap(i, j) /\ Done(j)
        /\ inv[j].doneAt < inv[i].doneAt
        /\ inv[i].url # inv[j].url
        /\ inv[i].status = "returned" /\ inv[i].value = FALSE
        /\ inv[j].status = "returned" /\ inv[j].value = TRUE
        /\ Len(SaveLogsOf(i)) > 1
        /\ Len(SaveLogsOf(j)) > 1

\* C13: no retry: every execute call issues exactly one probe, with exactly
\* the url given, or exactly one send attempt, whatever the outcome; after k
\* execute calls the collaborator has been called exactly k times.
C13_NoRetry ==
    /\ \A i \in Invs :
          IF inv[i].uc = "SendEmailLogs"
          THEN Len(SendsOf(i)) = 1
          ELSE Len(FetchesOf(i)) = 1 /\ FetchesOf(i)[1].url = inv[i].url
    /\ Len(fetchCalls) + Len(sendCalls) = Len(inv)
    /\ suite = "send-email-logs" => Len(sendCalls) = Len(inv)
    /\ suite \in {"check-service", "check-service-multiple"}
          => Len(fetchCalls) = Len(inv)

C13_Witness ==
    \E i, j \in Invs :
        /\ i # j
        /\ inv[i].uc # "SendEmailLogs"
        /\ Done(i) /\ inv[i].outcome.settled = "rejected"
        /\ Done(j) /\ inv[j].outcome.settled = "resolved" /\ ~inv[j].outcome.ok
        /\ Len(fetchCalls) = 2

\* C12: no use case reads logs: in every execution of CheckService.execute,
\* CheckServiceMultiple.execute and SendEmailLogs.execute, on success and on
\* failure paths alike, getLogs is never called on any repository.
C12_NeverReadsLogs == Len(getLogsCalls) = 0

\* every execute call made has finished, one having logged a success to all
\* its repositories and one a failure
C12_Witness ==
    /\ Len(inv) = MaxInv
    /\ \A i \in Invs : Done(i)
    /\ \E i, j \in Invs :
          /\ inv[i].status = "returned" /\ inv[i].value = TRUE
          /\ inv[j].status = "returned" /\ inv[j].value = FALSE
          /\ Len(SaveLogsOf(i)) = NumRepos
          /\ Len(SaveLogsOf(j)) = NumRepos
    /\ Len(getLogsCalls) = 0

\* the call orders of what an invocation did
SaveOrders(i) ==
    LET saves == SaveLogsOf(i) IN {saves[k].order : k \in 1..Len(saves)}
CallbackOrders(i) ==
    LET calls == CallbacksOf(i) IN {calls[k].order : k \in 1..Len(calls)}

\* C17: within one check invocation the probe completes before any saveLog
\* call, and every saveLog call of the invocation (all repositories of the
\* multi-repository variant) happens before the success or failure callback is
\* invoked and before execute returns; a callback is never invoked before the
\* log has been handed to the repositories.
C17_Ordering ==
    \A i \in Invs :
        inv[i].uc \in {"CheckService", "CheckServiceMultiple"}
        => LET saves == SaveOrders(i)
               calls == CallbackOrders(i)
               probed == FetchesOf(i)[1].order
           IN  /\ ~Done(i) => (saves = {} /\ calls = {})
               /\ \A s \in saves : probed < s
               /\ \A s \in saves, c \in calls : s < c
               /\ calls # {} => Cardinality(saves) = Len(inv[i].repos)
               /\ Done(i) => \A n \in saves \cup calls : n <= inv[i].doneAt
               /\ inv[i].status = "returned" => Cardinality(saves) = Len(inv[i].repos)

C17_Witness ==
    \E i, j \in Invs :
        /\ inv[i].uc = "CheckServiceMultiple" /\ Done(i)
        /\ Len(SaveLogsOf(i)) = NumRepos
        /\ Len(CallsOf(i, "errorCallback")) = 1
        /\ inv[j].uc = "CheckServiceMultiple" /\ ~Done(j)
        /\ Started(j) < FetchesOf(i)[1].order

\* the entries written to a repository, and by one invocation to it
EntriesOn(r) == SelectSeq(saveLogCalls, LAMBDA c : c.repo = r)
EntriesOfOn(i, r) == SelectSeq(saveLogCalls, LAMBDA c : c.inv = i /\ c.repo = r)

\* C18: with repositories that never raise, after any sequence of completed
\* execute calls: SendEmailLogs has written as many entries as invocations
\* returned false, all of level high; a check use case has written to each of
\* its repositories exactly one entry per invocation, of level low exactly for
\* the invocations that returned true and high exactly for those that returned
\* false; and no use case ever writes an entry of level medium.
C18_LogAccounting ==
    /\ \A k \in 1..Len(saveLogCalls) : saveLogCalls[k].entry.level \in {"low", "high"}
    /\ (throwing = {} /\ suite = "send-email-logs") =>
          /\ Len(saveLogCalls) =
                Cardinality({i \in Invs : inv[i].status = "returned" /\ ~inv[i].value})
          /\ \A k \in 1..Len(saveLogCalls) : saveLogCalls[k].entry.level = "high"
          /\ \A i \in Invs : Done(i) => inv[i].status = "returned"
    /\ (throwing = {} /\ suite \in {"check-service", "check-service-multiple"}) =>
          /\ \A i \in Invs : Done(i) =>
                /\ inv[i].status = "returned"
                /\ \A r \in Range(inv[i].repos) :
                      LET written == EntriesOfOn(i, r)
                      IN  /\ Len(written) = 1
                          /\ written[1].entry.level =
                                (IF inv[i].value THEN "low" ELSE "high")
          /\ \A r \in Repos :
                Len(EntriesOn(r)) =
                    Cardinality({i \in Invs : Done(i) /\ r \in Range(inv[i].repos)})

C18_Witness ==
    /\ throwing = {}
    /\ Len(inv) = MaxInv
    /\ \A i \in Invs : Done(i)
    /\ suite = "check-service-multiple"
    /\ Len(repositories) = NumRepos
    /\ \E i, j \in Invs :
          /\ inv[i].repos = repositories /\ inv[i].value = TRUE
          /\ inv[j].repos = repositories /\ inv[j].value = FALSE
    /\ Len(saveLogCalls) = 2 * NumRepos

\* ------------------------------------------------------------- LogEntity

\* every entity the constructor, fromJson or fromObject has produced
Produced ==
    Range(entities.built)
    \cup {p.entity : p \in Range(entities.parsed)}
    \cup {q.entity : q \in Range(entities.mapped)}

\* C14: every LogEntity produced by the constructor, by fromJson or by
\* fromObject has a level that is one of low, medium, high, entities read from
\* an empty or missing serialized representation included.
C14_LevelInvariant_Claimed ==
    \A e \in Produced : e.level \in LogSeverityLevel

SendMailsOf(i) == {k \in 1..Len(sendMailCalls) : sendMailCalls[k].call = i}

\* C16: sendEmail never raises; it returns true exactly when sendMail
\* completed without error and false when sendMail raised; each call makes
\* exactly one sendMail attempt, with the to, subject and html of its options.
C16_SendEmailNeverRaises ==
    \A i \in 1..Len(mails) :
        /\ mails[i].status # "raised"
        /\ mails[i].status = "returned" =>
              /\ mails[i].value = (mails[i].outcome.settled = "resolved")
              /\ mails[i].outcome.settled = "rejected" => mails[i].value = FALSE
        /\ Cardinality(SendMailsOf(i)) = 1
        /\ \A k \in SendMailsOf(i) :
              sendMailCalls[k].message =
                  [to |-> mails[i].options.to,
                   subject |-> mails[i].options.subject,
                   html |-> mails[i].options.htmlBody]

C16_Witness ==
    \E i, j \in 1..Len(mails) :
        /\ mails[i].status = "returned" /\ mails[i].value = TRUE
        /\ mails[i].outcome.settled = "resolved"
        /\ mails[j].status = "returned" /\ mails[j].value = FALSE
        /\ mails[j].outcome.settled = "rejected"
        /\ Len(sendMailCalls) = 2

====
